---------------------------- MODULE Spec2Model ----------------------------
(***************************************************************************)
(* Model of the iFixit RAG chatbot: the document formatter and knowledge   *)
(* base builder of ifixit_chatbot.py and the HTTP facade of api_server.py  *)
(* (initialize / query / reset / health over the process-wide chatbot and  *)
(* chatbot_initialized globals).                                           *)
(*                                                                         *)
(* A Python dict is a TLA+ function whose DOMAIN is the set of keys that   *)
(* are present; a Python str built by += is the sequence of the pieces     *)
(* appended, in order.                                                     *)
(***************************************************************************)
EXTENDS Integers, Sequences, FiniteSets, TLC

VARIABLES
    chatbot,              \* api_server.chatbot: None or Some(IFixitRAGChatbot object)
    chatbot_initialized,  \* api_server.chatbot_initialized
    tasks,                \* the requests in flight: slot -> handler coroutine
    running,              \* the slot whose coroutine holds the event loop, or Idle
    resp,                 \* the response sent last
    prev,                 \* which response was sent before it
    lastEvent,            \* "init_ok" / "reset": which of the two happened last
    fmt_guide,            \* the guide record handed to format_guide_to_document
    fmt_out,              \* the text it returned (NotRun before the call)
    fmt_pc                \* "input" before the call, "done" after it

srv_vars == <<chatbot, chatbot_initialized, tasks, running, resp, prev, lastEvent>>
fmt_vars == <<fmt_guide, fmt_out, fmt_pc>>
vars == <<srv_vars, fmt_vars>>

-----------------------------------------------------------------------------
(* Bounds *)

\* longest tools / steps list of a guide the formatter is run on
MaxLen == 2
\* longest result list the search endpoint returns
MaxResults == 2
\* requests that can be in flight at once
MaxInFlight == 2

-----------------------------------------------------------------------------
(* Python values *)

PyNone == "None"
\* an Optional reference: None, or Some(x) holding x
None == <<>>
Some(x) == <<x>>
Val(o) == o[1]
NotRun == <<"<not run>">>
EmptyDict == [k \in {} |-> ""]

\* dict.get(k, default)
Get(d, k, default) == IF k \in DOMAIN d THEN d[k] ELSE default

\* all lists over S of length 0..n
SeqsUpTo(S, n) == UNION {[1..k -> S] : k \in 0..n}

-----------------------------------------------------------------------------
(* IFixitRAGChatbot.format_guide_to_document *)

\* tool.get('text') or tool.get('name', 'Unknown')
ToolName(tool) ==
    LET text == Get(tool, "text", PyNone)
    IN  IF text # PyNone /\ text # "" THEN text ELSE Get(tool, "name", "Unknown")

RECURSIVE FormatTools(_)
FormatTools(tools) ==
    IF Len(tools) = 0 THEN <<>>
    ELSE <<"- ", ToolName(Head(tools)), "\n">> \o FormatTools(Tail(tools))

RECURSIVE FormatLines(_)
FormatLines(lines) ==
    IF Len(lines) = 0 THEN <<>>
    ELSE <<"  ", Get(Head(lines), "text", ""), "\n">> \o FormatLines(Tail(lines))

RECURSIVE FormatSteps(_, _)
FormatSteps(steps, idx) ==
    IF Len(steps) = 0 THEN <<>>
    ELSE <<"\nStep ", ToString(idx), ": ", Get(Head(steps), "title", "Untitled"), "\n">>
         \o FormatLines(Get(Head(steps), "lines", <<>>))
         \o FormatSteps(Tail(steps), idx + 1)

format_guide_to_document(guide) ==
    LET head  == <<"Title: ", Get(guide, "title", "N/A"), "\n">>
                 \o <<"Device: ", Get(guide, "device", "N/A"), "\n">>
                 \o <<"Difficulty: ", Get(guide, "difficulty", "N/A"), "\n\n">>
        intro == IF "introduction" \in DOMAIN guide
                 THEN <<"Introduction:\n", guide["introduction"], "\n\n">>
                 ELSE <<>>
        tools == IF "tools" \in DOMAIN guide /\ Len(guide["tools"]) > 0
                 THEN <<"Tools Required:\n">> \o FormatTools(guide["tools"]) \o <<"\n">>
                 ELSE <<>>
        steps == IF "steps" \in DOMAIN guide
                 THEN <<"Repair Steps:\n">> \o FormatSteps(guide["steps"], 1)
                 ELSE <<>>
    IN  head \o intro \o tools \o steps

-----------------------------------------------------------------------------
(* Guide records the formatter is run on *)

Tools == {EmptyDict, [text |-> "spudger"], [name |-> "driver"],
          [text |-> "", name |-> "driver"]}

Lines == {EmptyDict, [text |-> "pry"]}

Steps == {EmptyDict, [title |-> "Open"],
          [title |-> "Open", lines |-> <<[text |-> "pry"]>>],
          [lines |-> <<EmptyDict, [text |-> "pry"]>>]}

GuideKeys == {"title", "device", "difficulty", "introduction", "tools", "steps"}

\* the dict with the keys of `keys`; its tools list is `tl`, its steps list `st`
MakeGuide(keys, tl, st) ==
    [k \in keys |->
        CASE k = "title" -> "Battery"
          [] k = "device" -> "iPhone 13"
          [] k = "difficulty" -> "Easy"
          [] k = "introduction" -> "Replace it."
          [] k = "tools" -> tl
          [] k = "steps" -> st]

Guides ==
    {MakeGuide(keys, tl, st) :
        keys \in SUBSET GuideKeys,
        tl \in SeqsUpTo(Tools, MaxLen),
        st \in SeqsUpTo(Steps, MaxLen)}

-----------------------------------------------------------------------------
(* IFixitAPIClient: what the provider answers *)

\* a search result summary: without a guide id, or with one
Results == {EmptyDict, [guideid |-> 1], [guideid |-> 2]}

\* search_devices returns the 'results' list, or [] on any failure
SearchResults == SeqsUpTo(Results, MaxResults)

\* the guide the provider holds under id 1
ProviderGuide ==
    [title |-> "Battery", device |-> "iPhone 13",
     tools |-> <<[text |-> "spudger"]>>,
     steps |-> <<[title |-> "Open", lines |-> <<[text |-> "pry"]>>]>>]

\* get_guide_details returns the guide, or {} on any failure; the request
\* for guide 1 succeeds and the request for any other guide fails
get_guide_details(guide_id) ==
    IF guide_id = 1 THEN ProviderGuide ELSE EmptyDict

-----------------------------------------------------------------------------
(* IFixitRAGChatbot *)

Document(text) == [text |-> text]

PlaceholderText == <<"No guides found.">>

WarningAnswer == "Build knowledge base first"

\* __init__ leaves index and query_engine None; `id` is the object's identity
IFixitRAGChatbot(id) == [id |-> id, index |-> None, query_engine |-> None]

\* seq[:n]
SliceTo(seq, n) ==
    LET k == IF n >= 0 THEN (IF n < Len(seq) THEN n ELSE Len(seq))
             ELSE (IF Len(seq) + n > 0 THEN Len(seq) + n ELSE 0)
    IN  SubSeq(seq, 1, k)

\* the loop of build_knowledge_base over search_results[:max_guides]
RECURSIVE CollectDocuments(_)
CollectDocuments(selected) ==
    IF Len(selected) = 0 THEN <<>>
    ELSE LET guide_id == Get(Head(selected), "guideid", 0)
             guide == IF guide_id # 0 THEN get_guide_details(guide_id) ELSE EmptyDict
             rest == CollectDocuments(Tail(selected))
         IN  IF guide_id # 0 /\ DOMAIN guide # {}
             THEN <<Document(format_guide_to_document(guide))>> \o rest
             ELSE rest

\* lib: which call into the index library raises, if any
LibOutcomes == {"ok", "from_documents", "as_query_engine"}

\* the object after the call, and whether the call raised
build_knowledge_base(self, search_results, max_guides, lib) ==
    LET fetched == CollectDocuments(SliceTo(search_results, max_guides))
        documents == IF Len(fetched) = 0 THEN <<Document(PlaceholderText)>> ELSE fetched
        indexed == [self EXCEPT !.index = Some([documents |-> documents])]
        engine == [similarity_top_k |-> 2, response_mode |-> "compact",
                   documents |-> documents]
    IN  IF Len(search_results) = 0 THEN [self |-> self, raised |-> FALSE]
        ELSE IF lib = "from_documents" THEN [self |-> self, raised |-> TRUE]
        ELSE IF lib = "as_query_engine" THEN [self |-> indexed, raised |-> TRUE]
        ELSE [self |-> [indexed EXCEPT !.query_engine = Some(engine)],
              raised |-> FALSE]

\* engine: whether retrieval and generation answer or raise
EngineOutcomes == {"answers", "raises"}

\* query without its `if not self.query_engine` guard: None.query(...) raises
query_NoGuard(self, engine) ==
    IF self.query_engine = None \/ engine = "raises"
    THEN [raised |-> TRUE, value |-> ""]
    ELSE [raised |-> FALSE, value |-> "answer"]

query(self, engine) ==
    IF self.query_engine = None THEN [raised |-> FALSE, value |-> WarningAnswer]
    ELSE IF engine = "raises" THEN [raised |-> TRUE, value |-> ""]
    ELSE [raised |-> FALSE, value |-> "answer"]

-----------------------------------------------------------------------------
(* api_server: the event loop and the requests in flight *)

Idle == 0
Slots == 1..MaxInFlight

\* the identity of the object a reference holds
IdOf(cb) == IF cb = None THEN -1 ELSE Val(cb).id

Snapshot(cb, flag) == [chatbot |-> IdOf(cb), initialized |-> flag]

\* before: the globals when the handler started; search_empty, n_fetched: what
\* the handler's build saw
FreeTask == [op |-> "free", pc |-> "free", before |-> Snapshot(None, FALSE),
             search_empty |-> FALSE, n_fetched |-> 0]

\* the guard testing the reference alone
NotInitialized_ChatbotOnly(cb, flag) == cb = None

\* `not chatbot_initialized or not chatbot`
NotInitialized(cb, flag) == ~flag \/ cb = None

\* the body health_check returns
HealthBody(cb, flag) ==
    [status |-> "healthy", initialized |-> flag,
     model |-> IF cb # None THEN "llama2" ELSE "none"]

\* the status and body query_chatbot ends with
QueryResult(cb, flag, engine) ==
    IF NotInitialized(cb, flag)
    THEN [status |-> 400, body |-> [detail |-> "Not initialized"]]
    ELSE LET r == query(Val(cb), engine)
         IN  IF r.raised THEN [status |-> 500, body |-> [detail |-> "error"]]
             ELSE [status |-> 200, body |-> [answer |-> r.value]]

\* what a client can observe of the globals: the health body and the
\* outcomes a query can have
Observable(cb, flag) ==
    [health |-> HealthBody(cb, flag),
     query |-> {QueryResult(cb, flag, engine) : engine \in EngineOutcomes}]

NoResponse == [op |-> "none", status |-> 0, body |-> EmptyDict, raised |-> "none",
               search_empty |-> FALSE]

\* what `prev` keeps of a response
Summary(r) == [op |-> r.op, status |-> r.status, search_empty |-> r.search_empty]

\* the handler awaiting its build: it would give the loop back at line 67
AwaitPoint_DuringBuild(op, pc) == op = "initialize" /\ pc = "build"

\* the handlers are `async def` bodies without any await: a coroutine that has
\* started gives the event loop back only by returning or raising
AwaitPoint(op, pc) == FALSE

\* the coroutine in slot s may take its next step
Runnable(s) == tasks[s].op # "free" /\ running \in {Idle, s}

\* the coroutine in slot s goes on as t
Continue(s, t) ==
    /\ tasks' = [tasks EXCEPT ![s] = t]
    /\ running' = IF AwaitPoint(t.op, t.pc) THEN Idle ELSE s
    /\ UNCHANGED <<resp, prev, fmt_vars>>

\* the coroutine in slot s ends with a response
Respond(s, status, body, raised, search_empty) ==
    /\ tasks' = [tasks EXCEPT ![s] = FreeTask]
    /\ running' = Idle
    /\ prev' = Summary(resp)
    /\ resp' = [op |-> tasks[s].op, status |-> status, body |-> body,
                raised |-> raised, search_empty |-> search_empty]
    /\ UNCHANGED fmt_vars

Ops == {"initialize", "query", "reset", "health"}

\* a request reaches the server and its handler coroutine is scheduled, in
\* the first free slot
Arrive(s) ==
    /\ tasks[s].op = "free"
    /\ \A r \in Slots : r < s => tasks[r].op # "free"
    /\ \E op \in Ops :
          tasks' = [tasks EXCEPT ![s] = [FreeTask EXCEPT !.op = op, !.pc = "start"]]
    /\ UNCHANGED <<chatbot, chatbot_initialized, running, resp, prev, lastEvent, fmt_vars>>

\* the identity of a newly constructed object differs from the live one's
FreshId == IF chatbot # None /\ Val(chatbot).id = 0 THEN 1 ELSE 0

\* line 66 with the flag set as soon as the reference is assigned
initialize_chatbot_construct_FlagFirst(s) ==
    /\ Runnable(s) /\ tasks[s].op = "initialize" /\ tasks[s].pc = "start"
    /\ UNCHANGED lastEvent
    /\ \E ctor \in {"ok", "raises"} :
          IF ctor = "raises"
          THEN /\ UNCHANGED <<chatbot, chatbot_initialized>>
               /\ Respond(s, 500, [detail |-> "error"], "construct", FALSE)
          ELSE /\ chatbot' = Some(IFixitRAGChatbot(FreshId))
               /\ chatbot_initialized' = TRUE
               /\ Continue(s, [tasks[s] EXCEPT
                                 !.pc = "build",
                                 !.before = Snapshot(chatbot, chatbot_initialized)])

\* initialize_chatbot, line 66: chatbot = IFixitRAGChatbot(...)
initialize_chatbot_construct(s) ==
    /\ Runnable(s) /\ tasks[s].op = "initialize" /\ tasks[s].pc = "start"
    /\ UNCHANGED <<chatbot_initialized, lastEvent>>
    /\ \E ctor \in {"ok", "raises"} :
          IF ctor = "raises"
          THEN /\ UNCHANGED chatbot
               /\ Respond(s, 500, [detail |-> "error"], "construct", FALSE)
          ELSE /\ chatbot' = Some(IFixitRAGChatbot(FreshId))
               /\ Continue(s, [tasks[s] EXCEPT
                                 !.pc = "build",
                                 !.before = Snapshot(chatbot, chatbot_initialized)])

\* the outcomes line 67 can have on the object `self`: what the call leaves of
\* the object, whether it raised, and what its search and its fetches gave
BuildOutcomesOf(self) ==
    {LET r == build_knowledge_base(self, search_results, max_guides, lib)
     IN  [self |-> r.self, raised |-> r.raised,
          search_empty |-> (Len(search_results) = 0),
          n_fetched |-> Len(CollectDocuments(SliceTo(search_results, max_guides)))] :
        search_results \in SearchResults,
        max_guides \in (-1)..MaxResults,
        lib \in LibOutcomes}

\* the same for the objects __init__ has just returned, computed once
FreshBuildOutcomes == [id \in {0, 1} |-> BuildOutcomesOf(IFixitRAGChatbot(id))]

BuildOutcomes(self) ==
    IF self = IFixitRAGChatbot(self.id) THEN FreshBuildOutcomes[self.id]
    ELSE BuildOutcomesOf(self)

\* initialize_chatbot, line 67: chatbot.build_knowledge_base(...)
initialize_chatbot_build(s) ==
    /\ Runnable(s) /\ tasks[s].op = "initialize" /\ tasks[s].pc = "build"
    /\ UNCHANGED <<chatbot_initialized, lastEvent>>
    /\ IF chatbot = None
       THEN /\ UNCHANGED chatbot
            /\ Respond(s, 500, [detail |-> "error"], "build", FALSE)
       ELSE \E r \in BuildOutcomes(Val(chatbot)) :
               /\ chatbot' = Some(r.self)
               /\ IF r.raised
                  THEN Respond(s, 500, [detail |-> "error"], "build", r.search_empty)
                  ELSE Continue(s, [tasks[s] EXCEPT
                                      !.pc = "finish",
                                      !.search_empty = r.search_empty,
                                      !.n_fetched = r.n_fetched])

\* initialize_chatbot, lines 69-75: set the flag and return success
initialize_chatbot_finish(s) ==
    /\ Runnable(s) /\ tasks[s].op = "initialize" /\ tasks[s].pc = "finish"
    /\ chatbot_initialized' = TRUE
    /\ lastEvent' = "init_ok"
    /\ UNCHANGED chatbot
    /\ Respond(s, 200, [status |-> "success"], "none", tasks[s].search_empty)

\* query_chatbot, lines 84-85
query_chatbot_guard(s) ==
    /\ Runnable(s) /\ tasks[s].op = "query" /\ tasks[s].pc = "start"
    /\ UNCHANGED <<chatbot, chatbot_initialized, lastEvent>>
    /\ IF NotInitialized(chatbot, chatbot_initialized)
       THEN Respond(s, 400, [detail |-> "Not initialized"], "none", FALSE)
       ELSE Continue(s, [tasks[s] EXCEPT !.pc = "call"])

\* query_chatbot, lines 87-91
query_chatbot_call(s) ==
    /\ Runnable(s) /\ tasks[s].op = "query" /\ tasks[s].pc = "call"
    /\ UNCHANGED <<chatbot, chatbot_initialized, lastEvent>>
    /\ IF chatbot = None
       THEN Respond(s, 500, [detail |-> "error"], "query", FALSE)
       ELSE \E engine \in EngineOutcomes :
               LET r == query(Val(chatbot), engine)
               IN  IF r.raised
                   THEN Respond(s, 500, [detail |-> "error"], "query", FALSE)
                   ELSE Respond(s, 200, [answer |-> r.value], "none", FALSE)

\* reset without line 98: the flag is left as it was
reset_chatbot_KeepsFlag(s) ==
    /\ Runnable(s) /\ tasks[s].op = "reset" /\ tasks[s].pc = "start"
    /\ chatbot' = None
    /\ UNCHANGED chatbot_initialized
    /\ lastEvent' = "reset"
    /\ Respond(s, 200, [status |-> "success"], "none", FALSE)

\* reset without line 97: the reference is left as it was
reset_chatbot_KeepsChatbot(s) ==
    /\ Runnable(s) /\ tasks[s].op = "reset" /\ tasks[s].pc = "start"
    /\ UNCHANGED chatbot
    /\ chatbot_initialized' = FALSE
    /\ lastEvent' = "reset"
    /\ Respond(s, 200, [status |-> "success"], "none", FALSE)

\* reset_chatbot, lines 96-99
reset_chatbot(s) ==
    /\ Runnable(s) /\ tasks[s].op = "reset" /\ tasks[s].pc = "start"
    /\ chatbot' = None
    /\ chatbot_initialized' = FALSE
    /\ lastEvent' = "reset"
    /\ Respond(s, 200, [status |-> "success"], "none", FALSE)

\* health_check, lines 50-55
health_check(s) ==
    /\ Runnable(s) /\ tasks[s].op = "health" /\ tasks[s].pc = "start"
    /\ UNCHANGED <<chatbot, chatbot_initialized, lastEvent>>
    /\ Respond(s, 200, HealthBody(chatbot, chatbot_initialized), "none", FALSE)

-----------------------------------------------------------------------------
(* Specification of the service *)

Init ==
    /\ chatbot = None
    /\ chatbot_initialized = FALSE
    /\ tasks = [s \in Slots |-> FreeTask]
    /\ running = Idle
    /\ resp = NoResponse
    /\ prev = Summary(NoResponse)
    /\ lastEvent = "none"
    /\ fmt_guide = EmptyDict
    /\ fmt_out = NotRun
    /\ fmt_pc = "off"

Next ==
    \E s \in Slots :
        \/ Arrive(s)
        \/ initialize_chatbot_construct(s)
        \/ initialize_chatbot_build(s)
        \/ initialize_chatbot_finish(s)
        \/ query_chatbot_guard(s)
        \/ query_chatbot_call(s)
        \/ reset_chatbot(s)
        \/ health_check(s)

Spec == Init /\ [][Next]_vars

-----------------------------------------------------------------------------
(* Properties of the service *)

\* the handler of kind op in slot s sends its response in this step
Responds(s, op) == tasks[s].op = op /\ tasks'[s].op = "free"

\* an initialize is between line 66 (the reference replaced) and line 69 (the
\* flag set)
MidInitialize(s) == tasks[s].op = "initialize" /\ tasks[s].pc \in {"build", "finish"}

\* C1: a query handled while no initialize has succeeded since process start
\* or since the last reset is answered 400, whatever health, reset and failed
\* initialize calls came before it.
C1_QueryRejectedWhenUninitialized ==
    [][\A s \in Slots :
          (Responds(s, "query") /\ lastEvent # "init_ok") => resp'.status = 400]_vars

\* a query was rejected after a failed initialize had left a chatbot behind
C1_Witness ==
    /\ resp.op = "query" /\ resp.status = 400
    /\ prev.op = "initialize" /\ prev.status = 500
    /\ lastEvent # "init_ok" /\ chatbot # None

\* C2: a query is answered 200 only if the published chatbot holds a query
\* engine built by a successful initialize; otherwise it is rejected.
C2_AnsweredOnlyFromBuiltEngine ==
    [][\A s \in Slots :
          (Responds(s, "query") /\ resp'.status = 200)
             => (chatbot # None /\ Val(chatbot).query_engine # None)]_vars

\* C3: an initialize whose search gave nothing returns success and leaves the
\* flag set (health reports initialized), and the query that follows it does
\* not end in a 500.
C3_EmptySearchLeavesReady ==
    /\ (resp.op = "initialize" /\ resp.search_empty)
          => /\ resp.status = 200
             /\ chatbot_initialized
             /\ HealthBody(chatbot, chatbot_initialized).initialized
    /\ (resp.op = "query" /\ prev.op = "initialize" /\ prev.search_empty)
          => resp.status # 500

\* a query was answered right after an initialize whose search gave nothing
C3_Witness ==
    /\ resp.op = "query" /\ resp.status = 200
    /\ prev.op = "initialize" /\ prev.search_empty /\ prev.status = 200

\* C4: build_knowledge_base always returns with an Index and a query engine
\* built; when no document was fetched (the search gave nothing, or every
\* fetch came back empty) the Index holds the placeholder document alone.
C4_BuildAlwaysBuildsIndex ==
    \A s \in Slots :
        (tasks[s].op = "initialize" /\ tasks[s].pc = "finish")
           => /\ chatbot # None
              /\ Val(chatbot).index # None
              /\ Val(chatbot).query_engine # None
              /\ tasks[s].n_fetched = 0
                    => Val(chatbot).index
                         = Some([documents |-> <<Document(PlaceholderText)>>])

\* C5: health reports initialized=true exactly when the later of the events
\* {successful initialize, reset} is a successful initialize, and health
\* changes neither the chatbot reference nor the flag.
C5_HealthReportsLastEvent ==
    [][/\ resp'.op = "health"
            => resp'.body.initialized = (lastEvent' = "init_ok")
       /\ \A s \in Slots :
             Responds(s, "health")
                => /\ chatbot' = chatbot
                   /\ chatbot_initialized' = chatbot_initialized]_vars

\* health reported initialized=true after an initialize that failed had
\* followed the successful one
C5_Witness ==
    /\ resp.op = "health" /\ resp.body.initialized
    /\ prev.op = "initialize" /\ prev.status = 500
    /\ lastEvent = "init_ok"

\* C6: reset answers 200 from every state, leaves the reference cleared and
\* the flag false, and a reset that follows a reset leaves what a client can
\* observe (the health body, the outcomes of a query) as it was.
C6_ResetClearsAndIsIdempotent ==
    [][\A s \in Slots :
          Responds(s, "reset")
             => /\ resp'.status = 200
                /\ chatbot' = None
                /\ chatbot_initialized' = FALSE
                /\ resp.op = "reset"
                      => Observable(chatbot', chatbot_initialized')
                           = Observable(chatbot, chatbot_initialized)]_vars

\* two resets were answered in a row
C6_Witness ==
    /\ resp.op = "reset" /\ prev.op = "reset"
    /\ chatbot = None /\ ~chatbot_initialized

\* C7: an initialize that raises answers 500 and leaves the flag as it was
\* when the call started; raised in the constructor it leaves the reference
\* as it was, raised in the build it leaves a new chatbot without a query
\* engine in place of the previous one.
C7_FailedInitialize ==
    [][\A s \in Slots :
          (Responds(s, "initialize") /\ resp'.raised # "none")
             => /\ resp'.status = 500
                /\ chatbot_initialized'
                     = (IF tasks[s].pc = "start" THEN chatbot_initialized
                        ELSE tasks[s].before.initialized)
                /\ resp'.raised = "construct" => chatbot' = chatbot
                /\ resp'.raised = "build"
                      => /\ chatbot' # None
                         /\ IdOf(chatbot') # tasks[s].before.chatbot
                         /\ Val(chatbot').query_engine = None]_vars

\* an initialize failed in its build while the service was Ready: the flag is
\* still set and the published chatbot has no query engine
C7_Witness ==
    /\ resp.op = "initialize" /\ resp.raised = "build" /\ resp.status = 500
    /\ chatbot_initialized
    /\ chatbot # None /\ Val(chatbot).query_engine = None

\* C9: with an initialize between the replacement of the reference and the
\* setting of the flag and a query in flight, the query handler can run.
C9_QueryRunsMidInitialize ==
    \A i, q \in Slots :
        (MidInitialize(i) /\ tasks[q].op = "query")
           => ENABLED (query_chatbot_guard(q) \/ query_chatbot_call(q))

\* C9 as amended: a handler that has started keeps the event loop until it
\* returns or raises, so while an initialize is between line 66 and line 69
\* no query handler can run, and no query is past its guard.
C9_HandlersRunToCompletion ==
    \A i, q \in Slots :
        (MidInitialize(i) /\ tasks[q].op = "query")
           => /\ ~ENABLED (query_chatbot_guard(q) \/ query_chatbot_call(q))
              /\ tasks[q].pc = "start"

\* an initialize has replaced the reference and not yet built, with a query
\* in flight
C9_Witness ==
    \E i, q \in Slots :
        /\ tasks[i].op = "initialize" /\ tasks[i].pc = "build"
        /\ tasks[q].op = "query"
        /\ chatbot # None /\ Val(chatbot).query_engine = None

\* C10: the flag set implies the reference is not None, so health never
\* reports initialized=true with model "none" and the guard of query never
\* rejects on the reference alone.
C10_FlagImpliesChatbot ==
    /\ chatbot_initialized => chatbot # None
    /\ resp.op = "health" => ~(resp.body.initialized /\ resp.body.model = "none")
    /\ NotInitialized(chatbot, chatbot_initialized) <=> ~chatbot_initialized

\* the flag is set over a chatbot that a failed build left without an Index
C10_Witness ==
    /\ chatbot_initialized
    /\ chatbot # None /\ Val(chatbot).index = None
    /\ resp.op = "initialize" /\ resp.status = 500

-----------------------------------------------------------------------------
(* Specification of the formatter alone *)

FmtInit ==
    /\ chatbot = None
    /\ chatbot_initialized = FALSE
    /\ tasks = [s \in Slots |-> FreeTask]
    /\ running = Idle
    /\ resp = NoResponse
    /\ prev = Summary(NoResponse)
    /\ lastEvent = "none"
    /\ fmt_guide \in Guides
    /\ fmt_out = NotRun
    /\ fmt_pc = "input"

FmtCall ==
    /\ fmt_pc = "input"
    /\ fmt_out' = format_guide_to_document(fmt_guide)
    /\ fmt_pc' = "done"
    /\ UNCHANGED <<fmt_guide, srv_vars>>

FmtNext == FmtCall

SpecFmt == FmtInit /\ [][FmtNext]_vars

-----------------------------------------------------------------------------
(* Properties of the formatter *)

Pieces(text) == {text[i] : i \in 1..Len(text)}

\* C8: the formatter emits the Title, Device and Difficulty lines with "N/A"
\* for a missing field, the "Tools Required:" header only for a guide with at
\* least one tool and the "Repair Steps:" header only for a guide with at
\* least one step.
C8_SectionsOnlyWhenPresent ==
    fmt_pc = "done"
       => /\ Len(fmt_out) >= 9
          /\ SubSeq(fmt_out, 1, 9)
               = <<"Title: ",
                   IF "title" \in DOMAIN fmt_guide THEN fmt_guide["title"] ELSE "N/A",
                   "\n",
                   "Device: ",
                   IF "device" \in DOMAIN fmt_guide THEN fmt_guide["device"] ELSE "N/A",
                   "\n",
                   "Difficulty: ",
                   IF "difficulty" \in DOMAIN fmt_guide
                   THEN fmt_guide["difficulty"] ELSE "N/A",
                   "\n\n">>
          /\ "Tools Required:\n" \in Pieces(fmt_out)
                <=> ("tools" \in DOMAIN fmt_guide /\ Len(fmt_guide["tools"]) > 0)
          /\ "Repair Steps:\n" \in Pieces(fmt_out)
                <=> ("steps" \in DOMAIN fmt_guide /\ Len(fmt_guide["steps"]) > 0)


=============================================================================
